---- MODULE Spec2Model ----
(***************************************************************************)
(* A model of data_pipe.py: the six tasks load_data, data_cleaning,        *)
(* convert_dtypes, data_analysis, data_visualization and save_to_csv, and  *)
(* the flow run_pipeline that calls them in sequence.  A DataFrame is a    *)
(* record of its column names, its column dtypes and its sequence of       *)
(* labelled rows; a Series is a record of its name, its index and its      *)
(* values; a file is a record of its header and its lines of text cells.   *)
(***************************************************************************)
EXTENDS Integers, Sequences, FiniteSets, TLC

VARIABLES
    pc,               \* run_pipeline: the task about to run, or "done" / "failed"
    error,            \* run_pipeline: the exception that left the flow, if any
    raised,           \* the exception as raised inside the failing task
    input_file,       \* the file at `path`
    df,               \* run_pipeline: df
    df_cleaned,       \* run_pipeline: df_cleaned
    df_converted,     \* run_pipeline: df_converted (the object data_analysis is given)
    analysis_result,  \* run_pipeline: analysis_result
    png_file,         \* average_units_sold_by_month.png
    csv_file,         \* average_units_sold_by_month.csv
    written,          \* the output files this run has written
    u_pc,             \* a single task call: "idle", "ready", "returned", "again", "raised"
    u_in,             \* a single task call: the first argument
    u_opt,            \* a single task call: the second argument
    u_out,            \* a single task call: the value returned
    u_again,          \* data_cleaning applied to its own result
    u_err             \* a single task call: the exception raised

vars == <<pc, error, raised, input_file, df, df_cleaned, df_converted,
          analysis_result, png_file, csv_file, written,
          u_pc, u_in, u_opt, u_out, u_again, u_err>>

flow_vars == <<pc, error, raised, input_file, df, df_cleaned, df_converted,
               analysis_result, written>>

call_vars == <<u_pc, u_in, u_opt, u_out, u_again, u_err>>

(***************************************************************************)
(* Bounds.                                                                 *)
(***************************************************************************)
MaxRows == 3

(***************************************************************************)
(* Cell values.  A cell is tagged with what it holds: a missing value, a   *)
(* string, a number, a timestamp or a missing timestamp.                   *)
(***************************************************************************)
NaN == <<"nan">>
NaT == <<"nat">>
Str(s) == <<"str", s>>
Num(n) == <<"num", n>>
Ts(y, m, d) == <<"ts", y, m, d>>

IsNA(v) == v[1] \in {"nan", "nat"}

Columns == <<"Date", "Product Category", "Product Name", "Units Sold">>

Range(s) == {s[i] : i \in DOMAIN s}

(***************************************************************************)
(* pandas.DataFrame.drop_duplicates(): a row is dropped when an earlier    *)
(* row holds the same cells in every column (missing values compare        *)
(* equal); the rows kept keep their index labels.                          *)
(***************************************************************************)
(* drop_duplicates(keep="last"): the later of two equal rows is kept.       *)
RECURSIVE DropDuplicateRowsKeepLast(_, _)
DropDuplicateRowsKeepLast(rows, seen) ==
    IF rows = <<>> THEN <<>>
    ELSE IF \E i \in DOMAIN Tail(rows) : Tail(rows)[i].cells = Head(rows).cells
         THEN DropDuplicateRowsKeepLast(Tail(rows), seen)
         ELSE <<Head(rows)>> \o DropDuplicateRowsKeepLast(Tail(rows), seen)

RECURSIVE DropDuplicateRows(_, _)
DropDuplicateRows(rows, seen) ==
    IF rows = <<>> THEN <<>>
    ELSE IF Head(rows).cells \in seen
         THEN DropDuplicateRows(Tail(rows), seen)
         ELSE <<Head(rows)>> \o
              DropDuplicateRows(Tail(rows), seen \cup {Head(rows).cells})

drop_duplicates(data) ==
    [data EXCEPT !.rows = DropDuplicateRows(data.rows, {})]

(***************************************************************************)
(* pandas.DataFrame.dropna(): a row is dropped when any of its cells is    *)
(* missing; the rows kept keep their index labels.                         *)
(***************************************************************************)
RowIsComplete(r) == \A c \in DOMAIN r.cells : ~IsNA(r.cells[c])

dropna(data) ==
    [data EXCEPT !.rows = SelectSeq(data.rows, RowIsComplete)]

(***************************************************************************)
(* pandas.DataFrame.reset_index(drop=True): the rows are relabelled        *)
(* 0, 1, 2, ... in their order, the old labels are discarded.              *)
(***************************************************************************)
(* reset_index() without drop=True: the rows are relabelled and the old     *)
(* labels are kept as a new first column, "index", or "level_0" when a      *)
(* column "index" is there already.                                         *)
reset_index_keeping_labels(data) ==
    LET name == IF "index" \in Range(data.columns) THEN "level_0" ELSE "index"
    IN  [columns |-> <<name>> \o data.columns,
         dtypes |-> [c \in DOMAIN data.dtypes \cup {name} |->
                        IF c = name THEN "int64" ELSE data.dtypes[c]],
         rows |-> [i \in DOMAIN data.rows |->
                      [idx |-> i - 1,
                       cells |-> [c \in DOMAIN data.rows[i].cells \cup {name} |->
                                     IF c = name THEN <<"num", data.rows[i].idx>>
                                     ELSE data.rows[i].cells[c]]]]]

(* The index left as drop_duplicates and dropna left it.                    *)
index_not_reset(data) == data

reset_index(data) ==
    [data EXCEPT !.rows = [i \in DOMAIN data.rows |->
                              [data.rows[i] EXCEPT !.idx = i - 1]]]

(***************************************************************************)
(* data_cleaning                                                           *)
(***************************************************************************)
data_cleaning(data) == reset_index(dropna(drop_duplicates(data)))

(***************************************************************************)
(* The text a file can hold in a cell, and what pandas reads it as.  A     *)
(* text that is a number is listed with its value, a text that is a date   *)
(* with its year, month and day; every other text is neither.              *)
(***************************************************************************)
NumberText == ("10" :> 10) @@ ("20" :> 20)

DateText == ("2023-01-05" :> <<2023, 1, 5>>) @@
            ("2024-01-20" :> <<2024, 1, 20>>) @@
            ("2023-02-01" :> <<2023, 2, 1>>)

GoodDates == {"2023-01-05", "2024-01-20", "2023-02-01"}
GoodUnits == {"10", "20"}

Line(d, u) == <<d, "Electronics", "Phone", u>>

GoodLines == {Line(d, u) : d \in GoodDates, u \in GoodUnits}

Lines == GoodLines \cup {Line("not a date", "10"), Line("", "10"), Line("2023-01-05", "")}

RECURSIVE SeqsUpTo(_, _)
SeqsUpTo(S, n) ==
    IF n = 0 THEN {<<>>}
    ELSE LET shorter == SeqsUpTo(S, n - 1)
         IN  shorter \cup {Append(s, x) : s \in {t \in shorter : Len(t) = n - 1}, x \in S}

NoFile == [exists |-> FALSE, wellformed |-> FALSE, header |-> <<>>, lines |-> <<>>]

TextFile(header, lines) ==
    [exists |-> TRUE, wellformed |-> TRUE, header |-> header, lines |-> lines]

InputFiles ==
    {NoFile, [exists |-> TRUE, wellformed |-> FALSE, header |-> <<>>, lines |-> <<>>]}
    \cup {TextFile(Columns, ls) : ls \in SeqsUpTo(Lines, MaxRows)}

(***************************************************************************)
(* pandas.read_csv(path): the first line names the columns, every other    *)
(* line is a row, labelled 0, 1, 2, ...; an empty cell is a missing value, *)
(* a column of numbers is int64, or float64 when a value is missing, and   *)
(* any other column is object.                                             *)
(***************************************************************************)
ParseCell(s) ==
    IF s = "" THEN NaN
    ELSE IF s \in DOMAIN NumberText THEN Num(NumberText[s])
    ELSE Str(s)

InferDtype(cells) ==
    IF cells = <<>> THEN "object"
    ELSE IF \E i \in DOMAIN cells : cells[i][1] = "str" THEN "object"
    ELSE IF \E i \in DOMAIN cells : cells[i][1] = "nan" THEN "float64"
    ELSE "int64"

ColumnCells(data, c) == [i \in DOMAIN data.rows |-> data.rows[i].cells[c]]

read_csv(file) ==
    LET rows == [i \in DOMAIN file.lines |->
                    [idx |-> i - 1,
                     cells |-> [c \in Range(file.header) |->
                                  ParseCell(file.lines[i][
                                      CHOOSE j \in DOMAIN file.header :
                                          file.header[j] = c])]]]
        raw == [columns |-> file.header, dtypes |-> <<>>, rows |-> rows]
    IN  [raw EXCEPT !.dtypes = [c \in Range(file.header) |->
                                   InferDtype(ColumnCells(raw, c))]]

NoTable == [columns |-> <<>>, dtypes |-> <<>>, rows |-> <<>>]

(***************************************************************************)
(* pandas.DataFrame.astype(dtype): with a dict, each column it names is    *)
(* cast to the type given and the others are left alone; with None, numpy  *)
(* reads the dtype as float64 and every column is cast to it.  A cast      *)
(* that cannot be made raises.                                             *)
(***************************************************************************)
Uncastable == <<"uncastable">>

CastCell(v, from, to) ==
    IF to = "str"
    THEN IF v[1] = "nan" THEN Str("nan")
         ELSE IF v[1] = "num"
              THEN Str(IF from = "float64" THEN ToString(v[2]) \o ".0" ELSE ToString(v[2]))
         ELSE IF v[1] = "str" THEN v
         ELSE Uncastable
    ELSE IF to = "float64"
    THEN IF v[1] \in {"nan", "num"} THEN v
         ELSE IF v[1] = "str" /\ v[2] \in DOMAIN NumberText THEN Num(NumberText[v[2]])
         ELSE Uncastable
    ELSE IF to = "int64"
    THEN IF v[1] = "num" THEN v
         ELSE IF v[1] = "str" /\ v[2] \in DOMAIN NumberText THEN Num(NumberText[v[2]])
         ELSE Uncastable
    ELSE Uncastable

DtypeOf(to) == IF to = "str" THEN "object" ELSE to

NoTypes == [none |-> TRUE, map |-> <<>>]
Types(m) == [none |-> FALSE, map |-> m]

TargetType(data, types_dict, c) ==
    IF types_dict.none THEN "float64"
    ELSE IF c \in DOMAIN types_dict.map THEN types_dict.map[c]
    ELSE "unchanged"

astype(data, types_dict) ==
    LET cast(c, v) == IF TargetType(data, types_dict, c) = "unchanged" THEN v
                      ELSE CastCell(v, data.dtypes[c], TargetType(data, types_dict, c))
        rows == [i \in DOMAIN data.rows |->
                    [data.rows[i] EXCEPT !.cells =
                        [c \in DOMAIN data.rows[i].cells |-> cast(c, data.rows[i].cells[c])]]]
        dtypes == [c \in DOMAIN data.dtypes |->
                      IF TargetType(data, types_dict, c) = "unchanged" THEN data.dtypes[c]
                      ELSE DtypeOf(TargetType(data, types_dict, c))]
    IN  [ok |-> \A i \in DOMAIN rows : \A c \in DOMAIN rows[i].cells :
                    rows[i].cells[c] # Uncastable,
         value |-> [data EXCEPT !.rows = rows, !.dtypes = dtypes]]

(***************************************************************************)
(* pandas.to_datetime(column): a text that is a date becomes its           *)
(* timestamp, a missing value (or the text "nan") the missing timestamp    *)
(* NaT, a number the timestamp that many nanoseconds after 1970-01-01;     *)
(* any other text raises.                                                  *)
(***************************************************************************)
Unparseable == <<"unparseable">>

ParseDate(v) ==
    IF v[1] \in {"nan", "nat"} THEN NaT
    ELSE IF v[1] = "ts" THEN v
    ELSE IF v[1] = "num" THEN Ts(1970, 1, 1)
    ELSE IF v[1] = "str" /\ v[2] = "nan" THEN NaT
    ELSE IF v[1] = "str" /\ v[2] \in DOMAIN DateText
         THEN Ts(DateText[v[2]][1], DateText[v[2]][2], DateText[v[2]][3])
    ELSE Unparseable

to_datetime(cells) == [i \in DOMAIN cells |-> ParseDate(cells[i])]

(***************************************************************************)
(* convert_dtypes: data.astype(dtype=types_dict), then the Date column of  *)
(* the new frame is replaced by pd.to_datetime(data["Date"]).              *)
(***************************************************************************)

(* The parsed dates are not assigned to the frame's Date column.            *)
DateNotAssigned(data, dates) == data

SetDate(data, dates) ==
    [data EXCEPT !.rows = [i \in DOMAIN data.rows |->
                              [data.rows[i] EXCEPT !.cells["Date"] = dates[i]]],
                 !.dtypes["Date"] = "datetime64[ns]"]

convert_dtypes(data, types_dict) ==
    LET cast == astype(data, types_dict)
        dates == to_datetime(ColumnCells(cast.value, "Date"))
    IN  IF ~cast.ok
        THEN [ok |-> FALSE, exc |-> "ValueError: astype", value |-> NoTable]
        ELSE IF \E i \in DOMAIN dates : dates[i] = Unparseable
        THEN [ok |-> FALSE, exc |-> "DateParseError", value |-> NoTable]
        ELSE [ok |-> TRUE, exc |-> "", value |-> SetDate(cast.value, dates)]

(***************************************************************************)
(* data["month"] = data["Date"].dt.month: the frame given gets a column    *)
(* "month" holding the month number of each row's Date.                    *)
(***************************************************************************)
MonthOf(v) == IF v[1] = "ts" THEN Num(v[3]) ELSE NaN

AssignMonth(data) ==
    [columns |-> IF "month" \in Range(data.columns) THEN data.columns
                 ELSE Append(data.columns, "month"),
     dtypes |-> [c \in DOMAIN data.dtypes \cup {"month"} |->
                    IF c = "month" THEN "int32" ELSE data.dtypes[c]],
     rows |-> [i \in DOMAIN data.rows |->
                  [data.rows[i] EXCEPT !.cells =
                      [c \in DOMAIN data.rows[i].cells \cup {"month"} |->
                          IF c = "month" THEN MonthOf(data.rows[i].cells["Date"])
                          ELSE data.rows[i].cells[c]]]]]

(***************************************************************************)
(* data.groupby("month")["Units Sold"].mean(): one pass over the rows      *)
(* adds each row's Units Sold to the sum and the count of its month (a     *)
(* row whose month is missing belongs to no group, a missing Units Sold    *)
(* is skipped); the result is indexed by the months in ascending order     *)
(* and holds sum / count, a float.                                         *)
(***************************************************************************)
RECURSIVE GCD(_, _)
GCD(a, b) == IF b = 0 THEN a ELSE GCD(b, a % b)

Float(n, d) == <<"float", n \div GCD(n, d), d \div GCD(n, d)>>

RECURSIVE GroupAccumulate(_, _)
GroupAccumulate(rows, acc) ==
    IF rows = <<>> THEN acc
    ELSE LET key == Head(rows).cells["month"]
             val == Head(rows).cells["Units Sold"]
             old == IF key[2] \in DOMAIN acc THEN acc[key[2]]
                    ELSE [sum |-> 0, count |-> 0]
             new == IF val[1] = "num"
                    THEN [sum |-> old.sum + val[2], count |-> old.count + 1]
                    ELSE old
         IN  IF key[1] # "num" THEN GroupAccumulate(Tail(rows), acc)
             ELSE GroupAccumulate(Tail(rows),
                      [k \in DOMAIN acc \cup {key[2]} |->
                          IF k = key[2] THEN new ELSE acc[k]])

RECURSIVE SortAscending(_)
SortAscending(S) ==
    IF S = {} THEN <<>>
    ELSE LET least == CHOOSE x \in S : \A y \in S : x <= y
         IN  <<least>> \o SortAscending(S \ {least})

(* sum() where mean() is meant.                                             *)
GroupSum(g) == IF g.count = 0 THEN NaN ELSE Float(g.sum, 1)

GroupMean(g) == IF g.count = 0 THEN NaN ELSE Float(g.sum, g.count)

groupby_mean(data) ==
    LET groups == GroupAccumulate(data.rows, <<>>)
        index == SortAscending(DOMAIN groups)
    IN  [name |-> "Units Sold",
         index_name |-> "month",
         dtype |-> IF data.dtypes["Units Sold"] = "object" THEN "object" ELSE "float64",
         index |-> index,
         values |-> [i \in DOMAIN index |-> GroupMean(groups[index[i]])]]

NoSeries == [name |-> "", index_name |-> "", dtype |-> "", index |-> <<>>, values |-> <<>>]

(***************************************************************************)
(* data_analysis: `arg` is the frame the caller gave, as the call leaves   *)
(* it, and `value` is the Series returned.                                 *)
(***************************************************************************)
data_analysis(data) ==
    [arg |-> AssignMonth(data), value |-> groupby_mean(AssignMonth(data))]

(***************************************************************************)
(* new_df.plot(kind=vis_type, figsize=(10, 5), title=...): a Series can    *)
(* be drawn as one of the kinds below; "scatter" and "hexbin" are kinds    *)
(* of a DataFrame only, and any other word is no kind; both raise          *)
(* ValueError before anything is drawn.                                    *)
(***************************************************************************)
SeriesPlotKinds == {"line", "bar", "barh", "hist", "box", "kde", "density", "area", "pie"}

VisTypes == {"line", "bar", "area", "scatter", "hexbin", "sparkline"}

NoFigure == [kind |-> "", figsize |-> <<>>, title |-> "", x |-> <<>>, y |-> <<>>]

Figure(new_df, vis_type) ==
    [kind |-> vis_type, figsize |-> <<10, 5>>, title |-> "Average Units Sold by Month",
     x |-> new_df.index, y |-> new_df.values]

(* A plot that draws whatever kind it is asked for.                         *)
plot_any_kind(new_df, vis_type) ==
    [ok |-> TRUE, exc |-> "", figure |-> Figure(new_df, vis_type)]

plot(new_df, vis_type) ==
    IF vis_type \in SeriesPlotKinds
    THEN [ok |-> TRUE, exc |-> "", figure |-> Figure(new_df, vis_type)]
    ELSE [ok |-> FALSE, exc |-> "ValueError: plot kind", figure |-> NoFigure]

NoImage == [exists |-> FALSE, figure |-> NoFigure]

OldImage == [exists |-> TRUE,
             figure |-> [kind |-> "line", figsize |-> <<10, 5>>,
                         title |-> "Average Units Sold by Month",
                         x |-> <<12>>, y |-> <<Float(7, 1)>>]]

savefig(figure) == [exists |-> TRUE, figure |-> figure]

(***************************************************************************)
(* df.to_csv(filename, index=False): a header line naming the columns,     *)
(* then one line per row; the index is written as a first column only      *)
(* when index is True.  A float is written as its shortest text that       *)
(* reads back as the same float.                                           *)
(***************************************************************************)
FormatFloat(v) ==
    IF v[1] # "float" THEN ""
    ELSE IF v[3] = 1 THEN ToString(v[2]) \o ".0"
    ELSE ToString(v[2]) \o "/" \o ToString(v[3])

to_csv(obj, index) ==
    TextFile(IF index THEN <<obj.index_name, obj.name>> ELSE <<obj.name>>,
             [i \in DOMAIN obj.values |->
                 IF index THEN <<ToString(obj.index[i]), FormatFloat(obj.values[i])>>
                 ELSE <<FormatFloat(obj.values[i])>>])

OldCsv == TextFile(<<"Units Sold">>, <<<<"7.0">>>>)

(***************************************************************************)
(* run_pipeline: the tasks are called one after the other, each with the   *)
(* value the one before returned.  A task that raises ends the flow: the   *)
(* exception leaves run_pipeline as it was raised.                         *)
(***************************************************************************)
TaskOrder == <<"load_data", "data_cleaning", "convert_dtypes", "data_analysis",
               "data_visualization", "save_to_csv">>

Position(task) == CHOOSE i \in DOMAIN TaskOrder : TaskOrder[i] = task

After(task) ==
    IF Position(task) = Len(TaskOrder) THEN "done" ELSE TaskOrder[Position(task) + 1]

NoError == [task |-> "", exc |-> ""]

Return(task) ==
    /\ pc' = After(task)
    /\ UNCHANGED <<error, raised>>

(* The task's exception is caught and the flow goes on to the next task.    *)
RaiseSwallowed(task, exc) ==
    /\ pc' = After(task)
    /\ raised' = [task |-> task, exc |-> exc]
    /\ error' = NoError

(* The task's exception is replaced by one of the flow's own.               *)
RaiseWrapped(task, exc) ==
    /\ pc' = "failed"
    /\ raised' = [task |-> task, exc |-> exc]
    /\ error' = [task |-> "run_pipeline", exc |-> "FlowError"]

Raise(task, exc) ==
    /\ pc' = "failed"
    /\ raised' = [task |-> task, exc |-> exc]
    /\ error' = [task |-> task, exc |-> exc]

PipelineTypes == Types(("Product Category" :> "str") @@ ("Product Name" :> "str"))

PipelineVisType == "line"

(***************************************************************************)
(* The tasks.  Each is given its arguments and yields its outcome: the     *)
(* value returned, or the exception raised.  Where the outcome is decided  *)
(* by the file system (a file that cannot be written) or by the version    *)
(* of pandas (the mean and the plot of a column of dtype object, the       *)
(* Units Sold of a file without rows), the task yields every outcome.      *)
(***************************************************************************)
load_data(file) ==
    IF ~file.exists THEN [ok |-> FALSE, exc |-> "FileNotFoundError", value |-> NoTable]
    ELSE IF ~file.wellformed THEN [ok |-> FALSE, exc |-> "ParserError", value |-> NoTable]
    ELSE [ok |-> TRUE, exc |-> "", value |-> read_csv(file)]

data_analysis_outcomes(data) ==
    {[ok |-> TRUE, exc |-> "", arg |-> data_analysis(data).arg,
      value |-> data_analysis(data).value]}
    \cup IF data.dtypes["Units Sold"] = "object"
         THEN {[ok |-> FALSE, exc |-> "TypeError", arg |-> data_analysis(data).arg,
                value |-> NoSeries]}
         ELSE {}

data_visualization(new_df, vis_type) ==
    LET p == plot(new_df, vis_type)
        fails(exc) == [ok |-> FALSE, exc |-> exc, image |-> NoImage, value |-> NoSeries]
    IN  IF ~p.ok THEN {fails(p.exc)}
        ELSE {[ok |-> TRUE, exc |-> "", image |-> savefig(p.figure), value |-> new_df],
              fails("OSError")}
             \cup IF new_df.dtype = "object" THEN {fails("TypeError")} ELSE {}

save_to_csv(obj, filename) ==
    {[ok |-> TRUE, exc |-> "", file |-> to_csv(obj, FALSE), value |-> filename],
     [ok |-> FALSE, exc |-> "OSError", file |-> NoFile, value |-> ""]}

(***************************************************************************)
(* The steps of run_pipeline.                                              *)
(***************************************************************************)
RunLoadData ==
    /\ pc = "load_data"
    /\ LET r == load_data(input_file)
       IN  \/ /\ r.ok
              /\ df' = r.value
              /\ Return("load_data")
           \/ /\ ~r.ok
              /\ Raise("load_data", r.exc)
              /\ UNCHANGED df
    /\ UNCHANGED <<input_file, df_cleaned, df_converted, analysis_result,
                   png_file, csv_file, written>>
    /\ UNCHANGED call_vars

RunDataCleaning ==
    /\ pc = "data_cleaning"
    /\ df_cleaned' = data_cleaning(df)
    /\ Return("data_cleaning")
    /\ UNCHANGED <<input_file, df, df_converted, analysis_result,
                   png_file, csv_file, written>>
    /\ UNCHANGED call_vars

RunConvertDtypes ==
    /\ pc = "convert_dtypes"
    /\ LET r == convert_dtypes(df_cleaned, PipelineTypes)
       IN  \/ /\ r.ok
              /\ df_converted' = r.value
              /\ Return("convert_dtypes")
           \/ /\ ~r.ok
              /\ Raise("convert_dtypes", r.exc)
              /\ UNCHANGED df_converted
    /\ UNCHANGED <<input_file, df, df_cleaned, analysis_result,
                   png_file, csv_file, written>>
    /\ UNCHANGED call_vars

RunDataAnalysis ==
    /\ pc = "data_analysis"
    /\ \E r \in data_analysis_outcomes(df_converted) :
          /\ df_converted' = r.arg
          /\ \/ /\ r.ok
                /\ analysis_result' = r.value
                /\ Return("data_analysis")
             \/ /\ ~r.ok
                /\ Raise("data_analysis", r.exc)
                /\ UNCHANGED analysis_result
    /\ UNCHANGED <<input_file, df, df_cleaned, png_file, csv_file, written>>
    /\ UNCHANGED call_vars

RunDataVisualization ==
    /\ pc = "data_visualization"
    /\ \E r \in data_visualization(analysis_result, PipelineVisType) :
          \/ /\ r.ok
             /\ png_file' = r.image
             /\ written' = written \cup {"png"}
             /\ Return("data_visualization")
          \/ /\ ~r.ok
             /\ Raise("data_visualization", r.exc)
             /\ UNCHANGED <<png_file, written>>
    /\ UNCHANGED <<input_file, df, df_cleaned, df_converted, analysis_result, csv_file>>
    /\ UNCHANGED call_vars

RunSaveToCsv ==
    /\ pc = "save_to_csv"
    /\ \E r \in save_to_csv(analysis_result, "average_units_sold_by_month.csv") :
          \/ /\ r.ok
             /\ csv_file' = r.file
             /\ written' = written \cup {"csv"}
             /\ Return("save_to_csv")
          \/ /\ ~r.ok
             /\ Raise("save_to_csv", r.exc)
             /\ UNCHANGED <<csv_file, written>>
    /\ UNCHANGED <<input_file, df, df_cleaned, df_converted, analysis_result, png_file>>
    /\ UNCHANGED call_vars

NoCall ==
    /\ u_pc = "idle"
    /\ u_in = NoTable
    /\ u_opt = NoTypes
    /\ u_out = NoTable
    /\ u_again = NoTable
    /\ u_err = ""

Init ==
    /\ pc = "load_data"
    /\ error = NoError
    /\ raised = NoError
    /\ input_file \in InputFiles
    /\ df = NoTable
    /\ df_cleaned = NoTable
    /\ df_converted = NoTable
    /\ analysis_result = NoSeries
    /\ png_file \in {NoImage, OldImage}
    /\ csv_file \in {NoFile, OldCsv}
    /\ written = {}
    /\ NoCall

Next ==
    \/ RunLoadData
    \/ RunDataCleaning
    \/ RunConvertDtypes
    \/ RunDataAnalysis
    \/ RunDataVisualization
    \/ RunSaveToCsv

Spec == Init /\ [][Next]_vars

(***************************************************************************)
(* Single calls of a task, as Prefect makes them: the task is given its    *)
(* arguments and returns or raises.                                        *)
(***************************************************************************)
NoFlow ==
    /\ pc = "idle"
    /\ error = NoError
    /\ raised = NoError
    /\ input_file = NoFile
    /\ df = NoTable
    /\ df_cleaned = NoTable
    /\ df_converted = NoTable
    /\ analysis_result = NoSeries
    /\ csv_file = NoFile
    /\ written = {}

(* A frame as read from a file, and the same frame under an index that is  *)
(* not 0, 1, 2, ... (its rows labelled from the last to the first).        *)
Relabel(data, labels) ==
    IF labels = "range" THEN data
    ELSE [data EXCEPT !.rows = [i \in DOMAIN data.rows |->
                                   [data.rows[i] EXCEPT !.idx = Len(data.rows) - i]]]

Frames == {read_csv(TextFile(Columns, ls)) : ls \in SeqsUpTo(Lines, MaxRows)}

CallDataCleaning ==
    /\ u_pc = "ready"
    /\ u_out' = data_cleaning(u_in)
    /\ u_pc' = "returned"
    /\ UNCHANGED <<u_in, u_opt, u_again, u_err, png_file>>
    /\ UNCHANGED flow_vars
    /\ UNCHANGED csv_file

CallDataCleaningAgain ==
    /\ u_pc = "returned"
    /\ u_again' = data_cleaning(u_out)
    /\ u_pc' = "again"
    /\ UNCHANGED <<u_in, u_opt, u_out, u_err, png_file>>
    /\ UNCHANGED flow_vars
    /\ UNCHANGED csv_file

InitClean ==
    /\ NoFlow
    /\ png_file = NoImage
    /\ u_pc = "ready"
    /\ u_in \in {Relabel(f, l) : f \in Frames, l \in {"range", "reversed"}}
    /\ u_opt = NoTypes
    /\ u_out = NoTable
    /\ u_again = NoTable
    /\ u_err = ""

NextClean == CallDataCleaning \/ CallDataCleaningAgain

SpecClean == InitClean /\ [][NextClean]_vars

TypeMaps ==
    {NoTypes, Types(<<>>), PipelineTypes,
     Types("Date" :> "str"), Types("Date" :> "float64"),
     Types("Units Sold" :> "float64"), Types("Units Sold" :> "int64")}

CallConvertDtypes ==
    /\ u_pc = "ready"
    /\ LET r == convert_dtypes(u_in, u_opt)
       IN  \/ /\ r.ok
              /\ u_out' = r.value
              /\ u_pc' = "returned"
              /\ UNCHANGED u_err
           \/ /\ ~r.ok
              /\ u_err' = r.exc
              /\ u_pc' = "raised"
              /\ UNCHANGED u_out
    /\ UNCHANGED <<u_in, u_opt, u_again, png_file>>
    /\ UNCHANGED flow_vars
    /\ UNCHANGED csv_file

InitConvert ==
    /\ NoFlow
    /\ png_file = NoImage
    /\ u_pc = "ready"
    /\ u_in \in Frames
    /\ u_opt \in TypeMaps
    /\ u_out = NoTable
    /\ u_again = NoTable
    /\ u_err = ""

NextConvert == CallConvertDtypes

SpecConvert == InitConvert /\ [][NextConvert]_vars

(* The Series data_analysis returns for the files whose rows all hold a    *)
(* date and a number.                                                      *)
Aggregates ==
    {data_analysis(convert_dtypes(data_cleaning(read_csv(TextFile(Columns, ls))),
                                  PipelineTypes).value).value :
        ls \in SeqsUpTo(GoodLines, MaxRows) \ {<<>>}}

CallDataVisualization ==
    /\ u_pc = "ready"
    /\ \E r \in data_visualization(u_in, u_opt) :
          \/ /\ r.ok
             /\ png_file' = r.image
             /\ u_out' = r.value
             /\ u_pc' = "returned"
             /\ UNCHANGED u_err
          \/ /\ ~r.ok
             /\ u_err' = r.exc
             /\ u_pc' = "raised"
             /\ UNCHANGED <<u_out, png_file>>
    /\ UNCHANGED <<u_in, u_opt, u_again>>
    /\ UNCHANGED flow_vars
    /\ UNCHANGED csv_file

InitVis ==
    /\ NoFlow
    /\ png_file \in {NoImage, OldImage}
    /\ u_pc = "ready"
    /\ u_in \in Aggregates
    /\ u_opt \in VisTypes
    /\ u_out = NoSeries
    /\ u_again = NoTable
    /\ u_err = ""

NextVis == CallDataVisualization

SpecVis == InitVis /\ [][NextVis]_vars

(***************************************************************************)
(* Properties of run_pipeline (specification Spec).                        *)
(***************************************************************************)
StageNumber ==
    ("load_data" :> 1) @@ ("data_cleaning" :> 2) @@ ("convert_dtypes" :> 3) @@
    ("data_analysis" :> 4) @@ ("data_visualization" :> 5) @@ ("save_to_csv" :> 6) @@
    ("done" :> 7)

(* C1: the stages start in the order load, clean, normalize, aggregate,    *)
(* visualize, persist.  Every step of a run leaves a stage that was about  *)
(* to run, and either starts the stage that follows it, in which case no   *)
(* exception has been raised, or ends the run as failed; a run that has    *)
(* failed or is done takes no further step, so that no stage runs twice    *)
(* and none starts after a failure.                                        *)
StagesRunInOrder ==
    [][pc' # pc =>
          /\ pc \in DOMAIN StageNumber /\ pc # "done"
          /\ \/ pc' = "failed" /\ raised'.task = pc
             \/ /\ pc' \in DOMAIN StageNumber
                /\ StageNumber[pc'] = StageNumber[pc] + 1
                /\ raised' = NoError]_vars

(* C1 witness: a run that failed in the Type Normalizer, on a table that   *)
(* the Cleaner left with rows, with nothing written.                       *)
RunFailedInNormalizer ==
    /\ pc = "failed"
    /\ raised.task = "convert_dtypes"
    /\ df_cleaned.rows # <<>>
    /\ written = {}

(* C2: after a successful run the CSV file has a header row and two        *)
(* columns, month and mean units sold, and one line per month key of the   *)
(* aggregate, holding that month and its mean.                             *)
CsvHoldsMonthAndMean ==
    pc = "done" =>
        /\ csv_file.exists
        /\ Len(csv_file.header) = 2
        /\ Len(csv_file.lines) = Len(analysis_result.index)
        /\ \A i \in DOMAIN csv_file.lines :
              csv_file.lines[i] = <<ToString(analysis_result.index[i]),
                                    FormatFloat(analysis_result.values[i])>>

RECURSIVE SumOf(_, _)
SumOf(f, S) ==
    IF S = {} THEN 0
    ELSE LET x == CHOOSE y \in S : TRUE IN f[x] + SumOf(f, S \ {x})

RowsOfMonth(data, m) == {i \in DOMAIN data.rows : data.rows[i].cells["Date"][3] = m}

UnitsOf(data) == [i \in DOMAIN data.rows |-> data.rows[i].cells["Units Sold"][2]]

(* C5: the keys of the aggregate are the months that occur in the Date     *)
(* column, each once and in ascending order, and the value of a key is     *)
(* the sum of Units Sold over the rows of that month, whatever their       *)
(* year, divided by the number of those rows.                              *)
AggregateIsMeanByMonth ==
    analysis_result.name = "Units Sold" =>
        LET index == analysis_result.index
            values == analysis_result.values
        IN  /\ Range(index) = {df_converted.rows[i].cells["Date"][3] :
                                  i \in DOMAIN df_converted.rows}
            /\ Range(index) \subseteq 1..12
            /\ \A i, j \in DOMAIN index : i < j => index[i] < index[j]
            /\ Len(values) = Len(index)
            /\ \A i \in DOMAIN index :
                  LET rows == RowsOfMonth(df_converted, index[i])
                  IN  /\ values[i][1] = "float"
                      /\ values[i][2] * Cardinality(rows) =
                            SumOf(UnitsOf(df_converted), rows) * values[i][3]
                      /\ Cardinality(rows) = 1 =>
                            values[i] = <<"float", SumOf(UnitsOf(df_converted), rows), 1>>

(* C5 witness: an aggregate over two months, the first the mean of the     *)
(* rows of two years (10 and 20), the second the value of its only row.    *)
AggregateOverTwoYears ==
    /\ analysis_result.name = "Units Sold"
    /\ analysis_result.index = <<1, 2>>
    /\ analysis_result.values[1] = <<"float", 15, 1>>
    /\ analysis_result.values[2] = <<"float", 20, 1>>
    /\ {df_converted.rows[i].cells["Date"][2] : i \in RowsOfMonth(df_converted, 1)}
          = {2023, 2024}

(* C6: a run that fails stops at the stage that raised, with the           *)
(* exception that stage raised and with the output files as they were;     *)
(* the CSV file is written only by the Persister, after the Visualizer of  *)
(* the same run wrote the chart image, so a failure of the Persister       *)
(* leaves that image and a failure up to the Visualizer leaves the CSV     *)
(* file unwritten.                                                         *)
FailureLeavesOutputs ==
    [][/\ pc = "failed" => pc' = "failed"
       /\ (pc # "failed" /\ pc' = "failed") =>
             /\ error' = raised'
             /\ raised'.task = pc
             /\ raised'.exc # ""
             /\ png_file' = png_file /\ csv_file' = csv_file /\ written' = written
             /\ pc = "save_to_csv" =>
                   /\ "png" \in written
                   /\ png_file = [exists |-> TRUE,
                                  figure |-> Figure(analysis_result, "line")]
             /\ pc # "save_to_csv" => "csv" \notin written
       /\ (csv_file' # csv_file \/ "csv" \in written' \ written) =>
             /\ pc = "save_to_csv" /\ pc' = "done"
             /\ "png" \in written]_vars

(* C6 witness: the Persister failed after the Visualizer wrote the image   *)
(* over an older one; the CSV file of an earlier run is still there.       *)
PersisterFailedAfterImage ==
    /\ pc = "failed"
    /\ raised.task = "save_to_csv"
    /\ error = raised
    /\ "png" \in written
    /\ png_file # OldImage
    /\ csv_file = OldCsv

(* C7: no stage changes the table it is given: the Aggregator leaves the   *)
(* caller's table with the columns and rows it had, and the Visualizer     *)
(* and the Persister leave the aggregate as the Aggregator returned it.    *)
StagesLeaveTheirInput ==
    [][/\ pc = "data_cleaning" => df' = df
       /\ pc = "convert_dtypes" => df_cleaned' = df_cleaned
       /\ pc = "data_analysis" => df_converted' = df_converted
       /\ pc \in {"data_visualization", "save_to_csv"} =>
             analysis_result' = analysis_result]_vars

(***************************************************************************)
(* Properties of data_cleaning (specification SpecClean).                  *)
(***************************************************************************)
Missing(v) == v = NaN \/ v = NaT

HasMissing(r) == \E c \in DOMAIN r.cells : Missing(r.cells[c])

(* C3: the Cleaner's output has no two rows equal in every column, no row  *)
(* with a missing value, and its rows are labelled 0 .. count-1 in order.  *)
CleanedIsCleanAndIndexed ==
    u_pc \in {"returned", "again"} =>
        /\ \A i, j \in DOMAIN u_out.rows :
              i # j => u_out.rows[i].cells # u_out.rows[j].cells
        /\ \A i \in DOMAIN u_out.rows : ~HasMissing(u_out.rows[i])
        /\ \A i \in DOMAIN u_out.rows : u_out.rows[i].idx = i - 1
        /\ u_out.columns = u_in.columns

(* C3 witness: a table of three rows, labelled 2, 1, 0, that holds a       *)
(* duplicate and a row with a missing value, cleaned to a single row.      *)
CleanedDuplicateAndMissing ==
    /\ u_pc = "returned"
    /\ Len(u_in.rows) = 3
    /\ u_in.rows[1].idx = 2
    /\ HasMissing(u_in.rows[1])
    /\ u_in.rows[2].cells = u_in.rows[3].cells
    /\ Len(u_out.rows) = 1

(* C4: the Cleaner is idempotent: cleaning a cleaned table gives the same  *)
(* table, in rows, row order and row index.                                *)
CleaningIsIdempotent ==
    u_pc = "again" => u_again = u_out

(* C4 witness: a table that the first cleaning shortened to two rows has   *)
(* been cleaned a second time.                                             *)
CleanedTwice ==
    /\ u_pc = "again"
    /\ Len(u_in.rows) = 3
    /\ Len(u_out.rows) = 2
    /\ Len(u_again.rows) = 2

FirstComplete(data) ==
    {i \in DOMAIN data.rows :
        /\ ~HasMissing(data.rows[i])
        /\ \A j \in DOMAIN data.rows : j < i => data.rows[j].cells # data.rows[i].cells}

Nth(S, n) == CHOOSE i \in S : Cardinality({j \in S : j < i}) = n - 1

(* C10: the Cleaner's output is the input's rows without missing values,   *)
(* each distinct one once, at the place of its first occurrence and in     *)
(* the input's order; removing the rows with missing values before the     *)
(* duplicates gives the same table.                                        *)
CleanedIsFirstOccurrences ==
    u_pc \in {"returned", "again"} =>
        /\ Len(u_out.rows) = Cardinality(FirstComplete(u_in))
        /\ \A k \in DOMAIN u_out.rows :
              u_out.rows[k].cells = u_in.rows[Nth(FirstComplete(u_in), k)].cells
        /\ u_out = reset_index(drop_duplicates(dropna(u_in)))

(* C10 witness: the first and the third row of the input are equal, the    *)
(* second differs, and the output is the first and the second.             *)
CleanedKeptFirstOccurrence ==
    /\ u_pc = "returned"
    /\ Len(u_in.rows) = 3
    /\ u_in.rows[1].cells = u_in.rows[3].cells
    /\ u_in.rows[1].cells # u_in.rows[2].cells
    /\ Len(u_out.rows) = 2
    /\ u_out.rows[2].cells = u_in.rows[2].cells

(***************************************************************************)
(* Properties of convert_dtypes (specification SpecConvert).               *)
(***************************************************************************)
HoldsType(data, c, type) ==
    \A i \in DOMAIN data.rows :
        LET v == data.rows[i].cells[c]
        IN  IF type = "str" THEN v[1] = "str"
            ELSE IF type = "float64" THEN v[1] \in {"num", "nan"} /\ data.dtypes[c] = type
            ELSE IF type = "int64" THEN v[1] = "num" /\ data.dtypes[c] = type
            ELSE FALSE

NamedColumns(types_dict) == IF types_dict.none THEN {} ELSE DOMAIN types_dict.map

(* C9 as stated: after every successful call Date is temporal and holds    *)
(* valid calendar dates, and every column the type map names, Date         *)
(* included, holds the type the map declares.                              *)
ConvertedHoldsDeclaredTypes ==
    u_pc = "returned" =>
        /\ u_out.dtypes["Date"] = "datetime64[ns]"
        /\ \A i \in DOMAIN u_out.rows : u_out.rows[i].cells["Date"][1] = "ts"
        /\ \A c \in NamedColumns(u_opt) : HoldsType(u_out, c, u_opt.map[c])

(* C9: after every successful call, whatever the type map, Date is         *)
(* temporal: it holds the calendar date its text names, or NaT where the   *)
(* value was missing; every column the map names other than Date holds     *)
(* the type the map declares.                                              *)
ConvertedDateIsTemporal ==
    u_pc = "returned" =>
        /\ u_out.dtypes["Date"] = "datetime64[ns]"
        /\ Len(u_out.rows) = Len(u_in.rows)
        /\ \A i \in DOMAIN u_out.rows :
              LET before == u_in.rows[i].cells["Date"]
                  after == u_out.rows[i].cells["Date"]
              IN  IF Missing(before) THEN after = NaT
                  ELSE /\ after[1] = "ts"
                       /\ <<after[2], after[3], after[4]>> = DateText[before[2]]
        /\ \A c \in NamedColumns(u_opt) \ {"Date"} : HoldsType(u_out, c, u_opt.map[c])

(* C9 witness: a call whose map casts Date to str returned, on a table     *)
(* with rows.                                                              *)
ConvertedWithDateInMap ==
    /\ u_pc = "returned"
    /\ ~u_opt.none
    /\ "Date" \in DOMAIN u_opt.map
    /\ Len(u_out.rows) = 2
    /\ u_out.rows[1].cells["Date"][1] = "ts"

(***************************************************************************)
(* Properties of data_visualization (specification SpecVis).               *)
(***************************************************************************)
(* C8: called with a chart kind that is not a kind of a Series' plot, the  *)
(* Visualizer raises and writes nothing; called with such a kind it        *)
(* either raises because the image cannot be written, or writes the        *)
(* chart of its input over whatever the image file held and returns its    *)
(* input unchanged.                                                        *)
VisualizerRejectsUnknownKind ==
    /\ u_pc \in {"returned", "raised"} /\ u_opt \notin SeriesPlotKinds =>
          /\ u_pc = "raised"
          /\ u_err = "ValueError: plot kind"
    /\ u_pc = "raised" => u_err \in {"ValueError: plot kind", "OSError"}
    /\ u_pc = "returned" =>
          /\ u_opt \in SeriesPlotKinds
          /\ u_out = u_in
          /\ png_file.exists
          /\ png_file.figure.kind = u_opt
          /\ png_file.figure.title = "Average Units Sold by Month"
          /\ png_file.figure.x = u_in.index
          /\ png_file.figure.y = u_in.values

(* C8 witness: the kind "scatter" was refused.                             *)
ScatterRefused ==
    /\ u_pc = "raised"
    /\ u_opt = "scatter"
    /\ u_err = "ValueError: plot kind"
    /\ png_file = OldImage

====
